---- MODULE Spec2Model ----
(***************************************************************************)
(* docs-check: the analysis pipeline of DocumentationAnalyzer              *)
(* (src/src/doc-analyzer.ts) and the command-line driver main()            *)
(* (cli.ts, kept in src/unnamed/part_000), with GitOperations.cleanup      *)
(* (git-operations.ts, kept in src/src/types.ts).                          *)
(*                                                                         *)
(* Text is modelled as a sequence of tokens.  A file or directory name is  *)
(* a sequence of name tokens (<<"README", ".md">>), a relative path is the *)
(* names joined by the token "/", a model response is a sequence of        *)
(* response tokens (prose, fence markers, JSON texts).  The regular        *)
(* expressions of the source are evaluated over these token sequences.     *)
(***************************************************************************)
EXTENDS Integers, Sequences, FiniteSets, TLC

VARIABLES
    pc,             \* position inside analyzeDocumentation
    tree,           \* the cloned working tree: the root directory's entry
    script,         \* the messages the model service will stream
    docFiles,       \* result of findDocumentationFiles
    codeFiles,      \* result of findCodeFiles
    docContent,     \* result of readFiles: <<path, text>> pairs in insertion order
    codeStructure,  \* result of getCodeStructure
    prompt,         \* result of buildAnalysisPrompt
    pending,        \* messages of the response stream not yet consumed
    fullResponse,   \* the response text accumulated so far
    issues,         \* the issue array held by analyzeDocumentation
    parsed,         \* history: the array as parseClaudeResponse returned it
    summary,        \* result of generateSummary
    result,         \* the AnalysisResult returned, or NoResult
    error,          \* the error analyzeDocumentation raised: its message, outermost wrapper first
    modelCalls,     \* history: number of query() invocations
    stages,         \* history: the stages begun, in order
    cli             \* the state of one run of main()

vars == <<pc, tree, script, docFiles, codeFiles, docContent, codeStructure,
          prompt, pending, fullResponse, issues, parsed, summary, result,
          error, modelCalls, stages, cli>>

-----------------------------------------------------------------------------
(* Bounds of the model and constants of the program                        *)

MaxRun == 2         \* longest short run of generated files in a directory
MaxLen == 3         \* longest JSON array the model service answers with
MaxNul == 2         \* most null bytes in one generated file content
MaxMsgs == 3        \* longest generated stream of messages of every kind

FileCap == 50       \* slice(0, 50) of both scanners
ListingCap == 30    \* codeFiles.slice(0, 30) in getCodeStructure
DescriptorBudget == 1000   \* slice(0, 1000) of a project descriptor
PromptBudget == 2000       \* content.slice(0, 2000) in buildAnalysisPrompt

Undefined == "(undefined)"  \* a property that is not there
NUL == "NUL"                \* the character \0
SEP == "/"                  \* path separator

Min(a, b) == IF a < b THEN a ELSE b
Take(s, n) == SubSeq(s, 1, Min(n, Len(s)))
Range(s) == {s[i] : i \in 1..Len(s)}

RECURSIVE SeqsUpTo(_, _)
SeqsUpTo(S, n) ==
    IF n = 0 THEN {<<>>}
    ELSE LET shorter == SeqsUpTo(S, n - 1) IN
         shorter \cup {Append(s, x) : s \in {t \in shorter : Len(t) = n - 1}, x \in S}

-----------------------------------------------------------------------------
(* The file classifier: docPatterns and codePatterns                        *)

\* the /i flag: tokens compare by their lower-case form
Lower(t) ==
    CASE t = "README" -> "readme"
      [] t = "Docs" -> "docs"
      [] t = ".MD" -> ".md"
      [] t = ".TS" -> ".ts"
      [] t = "Cargo" -> "cargo"
      [] t = "CHANGELOG" -> "changelog"
      [] t = "Doc" -> "doc"
      [] OTHER -> t

EndsWith(p, suffix) ==
    /\ Len(p) >= Len(suffix)
    /\ \A i \in 1..Len(suffix) :
          Lower(p[Len(p) - Len(suffix) + i]) = Lower(suffix[i])

Contains(p, t) == \E i \in 1..Len(p) : Lower(p[i]) = t

\* String.prototype.includes: case-sensitive, anywhere in the path
Includes(p, sub) ==
    \E i \in 0..(Len(p) - Len(sub)) : \A j \in 1..Len(sub) : p[i + j] = sub[j]

docPatterns(p) ==
    \/ EndsWith(p, <<".md">>)
    \/ EndsWith(p, <<".rst">>)
    \/ EndsWith(p, <<".txt">>)
    \/ Contains(p, "readme")
    \/ Contains(p, "changelog")
    \/ Contains(p, "contributing")
    \/ Contains(p, "license")
    \/ \E i \in 1..(Len(p) - 1) : Lower(p[i]) \in {"doc", "docs"} /\ p[i + 1] = SEP

CodeExtensions ==
    {".js", ".jsx", ".ts", ".tsx", ".py", ".java", ".cpp", ".c", ".h", ".cs",
     ".php", ".rb", ".go", ".rust", ".rs"}

codePatterns(p) ==
    \/ (p # <<>> /\ Lower(p[Len(p)]) \in CodeExtensions)
    \/ EndsWith(p, <<"package", ".json">>)
    \/ EndsWith(p, <<"requirements", ".txt">>)
    \/ EndsWith(p, <<"cargo", ".toml">>)
    \/ EndsWith(p, <<"pom", ".xml">>)

-----------------------------------------------------------------------------
(* The working tree                                                         *)

File(name, content, readable) ==
    [kind |-> "file", name |-> name, content |-> content,
     readable |-> readable, children |-> <<>>]
Dir(name, readable, children) ==
    [kind |-> "dir", name |-> name, content |-> <<>>,
     readable |-> readable, children |-> children]
\* an entry that is neither a file nor a directory (a symbolic link, a socket)
Other(name) ==
    [kind |-> "other", name |-> name, content |-> <<>>,
     readable |-> TRUE, children |-> <<>>]

\* path.join / path.relative: the path of an entry relative to the root
join(rel, name) == IF rel = <<>> THEN name ELSE rel \o <<SEP>> \o name

DocIgnored ==
    {<<"node_modules">>, <<".git">>, <<"dist">>, <<"build">>, <<".next">>,
     <<"coverage">>}
CodeIgnored ==
    {<<"node_modules">>, <<".git">>, <<"dist">>, <<"build">>, <<".next">>,
     <<"coverage">>, <<"target">>, <<"__pycache__">>}

RECURSIVE docScanList(_, _)
RECURSIVE docScanDirectory(_, _)
\* findDocumentationFiles.scanDirectory: readdir, then the loop over entries
docScanDirectory(dir, rel) ==
    IF ~dir.readable THEN <<>> ELSE docScanList(dir.children, rel)
docScanList(entries, rel) ==
    IF entries = <<>> THEN <<>>
    ELSE LET entry == Head(entries)
             relativePath == join(rel, entry.name)
             found ==
                 CASE entry.kind = "dir" ->
                        IF entry.name \notin DocIgnored
                        THEN docScanDirectory(entry, relativePath) ELSE <<>>
                   [] entry.kind = "file" ->
                        IF docPatterns(relativePath) THEN <<relativePath>> ELSE <<>>
                   [] OTHER -> <<>>
         IN found \o docScanList(Tail(entries), rel)

RECURSIVE codeScanList(_, _)
RECURSIVE codeScanDirectory(_, _)
\* findCodeFiles.scanDirectory
codeScanDirectory(dir, rel) ==
    IF ~dir.readable THEN <<>> ELSE codeScanList(dir.children, rel)
codeScanList(entries, rel) ==
    IF entries = <<>> THEN <<>>
    ELSE LET entry == Head(entries)
             relativePath == join(rel, entry.name)
             found ==
                 CASE entry.kind = "dir" ->
                        IF entry.name \notin CodeIgnored
                        THEN codeScanDirectory(entry, relativePath) ELSE <<>>
                   [] entry.kind = "file" ->
                        IF codePatterns(relativePath) THEN <<relativePath>> ELSE <<>>
                   [] OTHER -> <<>>
         IN found \o codeScanList(Tail(entries), rel)

\* findDocumentationFiles that keeps the last FileCap matches: slice(-50)
findDocumentationFilesTail(root) ==
    LET all == docScanDirectory(root, <<>>) IN
    SubSeq(all, Len(all) - Min(FileCap, Len(all)) + 1, Len(all))

findDocumentationFiles(root) == Take(docScanDirectory(root, <<>>), FileCap)
findCodeFiles(root) == Take(codeScanDirectory(root, <<>>), FileCap)

-----------------------------------------------------------------------------
(* The content loader, the code-structure summary and the prompt            *)

\* every file of the tree with its path, whatever directory it lies in
RECURSIVE allFiles(_, _)
allFiles(entries, rel) ==
    IF entries = <<>> THEN <<>>
    ELSE LET entry == Head(entries)
             relativePath == join(rel, entry.name)
             here ==
                 CASE entry.kind = "dir" -> allFiles(entry.children, relativePath)
                   [] entry.kind = "file" ->
                        <<[path |-> relativePath, content |-> entry.content,
                           readable |-> entry.readable]>>
                   [] OTHER -> <<>>
         IN here \o allFiles(Tail(entries), rel)

\* fs.readFile(join(repoPath, filePath), "utf-8"): the text, or a failure
readFile(root, filePath) ==
    LET hits == SelectSeq(allFiles(root.children, <<>>),
                          LAMBDA f : f.path = filePath /\ f.readable)
    IN IF hits = <<>> THEN [ok |-> FALSE, text |-> <<>>]
       ELSE [ok |-> TRUE, text |-> hits[1].content]

\* replace without the g flag: only the first null byte goes
stripFirstNul(text) ==
    LET at == {i \in 1..Len(text) : text[i] = NUL}
        first == CHOOSE i \in at : \A j \in at : i <= j
    IN IF at = {} THEN text
       ELSE SubSeq(text, 1, first - 1) \o SubSeq(text, first + 1, Len(text))

\* fileContent.replace(/\0/g, "")
stripNul(text) == SelectSeq(text, LAMBDA c : c # NUL)

Placeholder == <<"[Could not read file]">>

\* content[filePath] = text on a Record kept in insertion order
Put(content, filePath, text) ==
    IF \E i \in 1..Len(content) : content[i][1] = filePath
    THEN [i \in 1..Len(content) |->
             IF content[i][1] = filePath THEN <<filePath, text>> ELSE content[i]]
    ELSE Append(content, <<filePath, text>>)

RECURSIVE readFilesInto(_, _, _)
readFilesInto(content, root, filePaths) ==
    IF filePaths = <<>> THEN content
    ELSE LET filePath == Head(filePaths)
             read == readFile(root, filePath)
             text == IF read.ok THEN stripNul(read.text) ELSE Placeholder
         IN readFilesInto(Put(content, filePath, text), root, Tail(filePaths))

readFiles(root, filePaths) == readFilesInto(<<>>, root, filePaths)

ProjectDescriptors ==
    {<<"package", ".json">>, <<"requirements", ".txt">>, <<"Cargo", ".toml">>,
     <<"pom", ".xml">>}

getCodeStructure(root, files) ==
    LET projectFiles ==
            SelectSeq(files, LAMBDA f : \E d \in ProjectDescriptors : Includes(f, d))
        readable == SelectSeq(projectFiles, LAMBDA f : readFile(root, f).ok)
    IN [projects |->
            [i \in 1..Len(readable) |->
                <<readable[i],
                  Take(stripNul(readFile(root, readable[i]).text), DescriptorBudget)>>],
        listing |-> Take(files, ListingCap)]

buildAnalysisPrompt(documentationContent, structure) ==
    [structure |-> structure,
     docs |-> [i \in 1..Len(documentationContent) |->
                  [path |-> documentationContent[i][1],
                   text |-> Take(documentationContent[i][2], PromptBudget),
                   truncated |-> Len(documentationContent[i][2]) > PromptBudget]]]

-----------------------------------------------------------------------------
(* The response stream of the model service                                 *)

\* JSON values as far as the parser tells them apart
NoJson == [k |-> "none", elems |-> <<>>]
JArray(elems) == [k |-> "array", elems |-> elems]
JObject == [k |-> "object", elems |-> <<>>]     \* a JSON text that is no array

\* response tokens
Tok(t) == [t |-> t, v |-> NoJson]
Prose == Tok("prose")           \* text without fence, bracket or backslash
FenceOpen == Tok("open")        \* ```json\n
FenceClose == Tok("close")      \* \n```
BadJson == Tok("badjson")       \* text JSON.parse rejects
Backslash == Tok("bs")
LBracket == Tok("lb")
RBracket == Tok("rb")
LetterS == Tok("s")             \* the letter s or S
JsonText(value) == [t |-> "json", v |-> value]  \* JSON.stringify(value)

\* SDK messages
TextBlock(text) == [type |-> "text", text |-> text]
ToolUseBlock == [type |-> "tool_use", text |-> <<>>]
AssistantBlocks(blocks) ==
    [type |-> "assistant", subtype |-> Undefined, content |-> "array",
     blocks |-> blocks, text |-> <<>>]
AssistantString(text) ==
    [type |-> "assistant", subtype |-> Undefined, content |-> "string",
     blocks |-> <<>>, text |-> text]
ResultMessage(subtype, text) ==
    [type |-> "result", subtype |-> subtype, content |-> Undefined,
     blocks |-> <<>>, text |-> text]
ControlMessage(type) ==
    [type |-> type, subtype |-> Undefined, content |-> Undefined,
     blocks |-> <<>>, text |-> <<>>]

RECURSIVE blockText(_)
blockText(blocks) ==
    IF blocks = <<>> THEN <<>>
    ELSE (IF Head(blocks).type = "text" THEN Head(blocks).text ELSE <<>>)
         \o blockText(Tail(blocks))

\* messageText that appends the result of every result message
messageTextAnyResult(message) ==
    IF message.type = "assistant"
    THEN IF message.content = "array" THEN blockText(message.blocks)
         ELSE IF message.content = "string" THEN message.text
         ELSE <<>>
    ELSE IF message.type = "result"
         THEN message.text
         ELSE <<>>

\* one turn of the for-await loop: what the message adds to fullResponse
messageText(message) ==
    IF message.type = "assistant"
    THEN IF message.content = "array" THEN blockText(message.blocks)
         ELSE IF message.content = "string" THEN message.text
         ELSE <<>>
    ELSE IF message.type = "result" /\ message.subtype = "success"
         THEN message.text
         ELSE <<>>

\* the whole for-await loop over a stream that ends without an error
RECURSIVE collectResponse(_)
collectResponse(messages) ==
    IF messages = <<>> THEN <<>>
    ELSE messageText(Head(messages)) \o collectResponse(Tail(messages))

-----------------------------------------------------------------------------
(* The response parser                                                      *)

Str(s) == [text |-> s, raw |-> <<>>]
Truthy(x) == x \notin {Undefined, ""}

\* array elements: null, a primitive, or an object with these properties
NullElem ==
    [k |-> "null", type |-> Undefined, severity |-> Undefined, effort |-> Undefined,
     title |-> Undefined, description |-> Str(Undefined), suggestion |-> Undefined]
PrimElem ==
    [k |-> "prim", type |-> Undefined, severity |-> Undefined, effort |-> Undefined,
     title |-> Undefined, description |-> Str(Undefined), suggestion |-> Undefined]
Obj(type, severity, effort, title, description) ==
    [k |-> "object", type |-> type, severity |-> severity, effort |-> effort,
     title |-> title, description |-> Str(description), suggestion |-> Undefined]

IssueTypes == {"missing", "outdated", "unclear", "broken-link"}
Severities == {"high", "medium", "low"}
Efforts == {"high", "medium", "low"}

\* response.match(/```json\n([\s\S]*?)\n```/): the first fence and the first
\* closing marker after it
jsonMatch(response) ==
    LET opens == {i \in 1..Len(response) : response[i].t = "open"}
        first == CHOOSE i \in opens : \A j \in opens : i <= j
        closes == IF opens = {} THEN {}
                  ELSE {j \in (first + 1)..Len(response) : response[j].t = "close"}
        last == CHOOSE j \in closes : \A m \in closes : j <= m
    IN IF closes = {} THEN [found |-> FALSE, group |-> <<>>]
       ELSE [found |-> TRUE, group |-> SubSeq(response, first + 1, last - 1)]

\* response.match(/\\\[[\\s\\S]*\\\\]/): a backslash and "[", then only
\* backslashes and the letters s, S (as many as possible), then two
\* backslashes and "]"; the leftmost such match
plainMatchEnds(response, i) ==
    {j \in (i + 2)..(Len(response) - 2) :
        /\ response[i].t = "bs" /\ response[i + 1].t = "lb"
        /\ \A m \in (i + 2)..(j - 1) : response[m].t \in {"bs", "s"}
        /\ response[j].t = "bs" /\ response[j + 1].t = "bs"
        /\ response[j + 2].t = "rb"}

plainJsonMatch(response) ==
    LET starts == {i \in 1..Len(response) : plainMatchEnds(response, i) # {}}
        first == CHOOSE i \in starts : \A m \in starts : i <= m
        ends == plainMatchEnds(response, first)
        last == CHOOSE j \in ends : \A m \in ends : j >= m
    IN IF starts = {} THEN [found |-> FALSE, group |-> <<>>]
       ELSE [found |-> TRUE, group |-> SubSeq(response, first, last + 2)]

\* JSON.parse of a text: one well-formed JSON text, else a SyntaxError
jsonParse(text) ==
    IF Len(text) = 1 /\ text[1].t = "json"
    THEN [ok |-> TRUE, value |-> text[1].v]
    ELSE [ok |-> FALSE, value |-> NoJson]

\* keeps without its severity whitelist
keepsAnySeverity(issue) ==
    /\ Truthy(issue.type)
    /\ Truthy(issue.severity)
    /\ Truthy(issue.effort)
    /\ Truthy(issue.title)
    /\ Truthy(issue.description.text)
    /\ issue.type \in IssueTypes

\* the predicate handed to issues.filter
keeps(issue) ==
    /\ Truthy(issue.type)
    /\ Truthy(issue.severity)
    /\ Truthy(issue.effort)
    /\ Truthy(issue.title)
    /\ Truthy(issue.description.text)
    /\ issue.type \in IssueTypes
    /\ issue.severity \in Severities

\* issues.filter(...) raises a TypeError when issues is no array, and when the
\* predicate reads a property of null
filterThrows(value) ==
    \/ value.k # "array"
    \/ \E i \in 1..Len(value.elems) : value.elems[i].k = "null"

fallbackIssue(response) ==
    [k |-> "object", type |-> "unclear", severity |-> "medium", effort |-> "medium",
     title |-> "Analysis completed with parsing issues",
     description |->
        [text |-> "Claude provided analysis but response format was unexpected. Raw response: ",
         raw |-> response],
     suggestion |-> "Manual review of documentation recommended"]

\* parseClaudeResponse with a catch that returns no issue at all
parseOrNothing(response) ==
    LET m == jsonMatch(response)
        plain == plainJsonMatch(response)
        got == IF m.found /\ m.group # <<>> THEN jsonParse(m.group)
               ELSE IF plain.found THEN jsonParse(plain.group)
               ELSE [ok |-> FALSE, value |-> NoJson]
    IN IF got.ok /\ ~filterThrows(got.value)
       THEN SelectSeq(got.value.elems, keeps)
       ELSE <<>>

parseClaudeResponse(response) ==
    LET m == jsonMatch(response)
        plain == plainJsonMatch(response)
        \* JSON.parse of the fenced text, else of the plain match, else the
        \* error "No JSON array found"
        got == IF m.found /\ m.group # <<>> THEN jsonParse(m.group)
               ELSE IF plain.found THEN jsonParse(plain.group)
               ELSE [ok |-> FALSE, value |-> NoJson]
    IN IF got.ok /\ ~filterThrows(got.value)
       THEN SelectSeq(got.value.elems, keeps)
       ELSE <<fallbackIssue(response)>>

-----------------------------------------------------------------------------
(* The ranker and the summary                                               *)

severityOrder(s) == CASE s = "high" -> 0 [] s = "medium" -> 1 [] s = "low" -> 2
effortOrder(e) == CASE e = "low" -> 0 [] e = "medium" -> 1 [] e = "high" -> 2

\* the comparator of issues.sort: a lookup of a key that the order table does
\* not hold yields undefined, the difference is NaN, and sort reads NaN as 0
compareIssues(a, b) ==
    IF a.severity # b.severity
    THEN IF a.severity \in Severities /\ b.severity \in Severities
         THEN severityOrder(a.severity) - severityOrder(b.severity)
         ELSE 0
    ELSE IF a.effort \in Efforts /\ b.effort \in Efforts
         THEN effortOrder(a.effort) - effortOrder(b.effort)
         ELSE 0

\* Array.prototype.sort on a short array: binary insertion, left to right
RECURSIVE insertionPoint(_, _, _, _)
insertionPoint(sorted, pivot, left, right) ==
    IF left >= right THEN left
    ELSE LET mid == left + ((right - left) \div 2) IN
         IF compareIssues(pivot, sorted[mid + 1]) < 0
         THEN insertionPoint(sorted, pivot, left, mid)
         ELSE insertionPoint(sorted, pivot, mid + 1, right)

RECURSIVE sortFrom(_, _)
sortFrom(sorted, rest) ==
    IF rest = <<>> THEN sorted
    ELSE LET pivot == Head(rest)
             at == insertionPoint(sorted, pivot, 0, Len(sorted))
         IN sortFrom(SubSeq(sorted, 1, at) \o <<pivot>>
                        \o SubSeq(sorted, at + 1, Len(sorted)),
                     Tail(rest))

sortIssues(list) == sortFrom(<<>>, list)

Count(list, severity) == Len(SelectSeq(list, LAMBDA issue : issue.severity = severity))

generateSummary(list) ==
    [totalIssues |-> Len(list),
     highSeverity |-> Count(list, "high"),
     mediumSeverity |-> Count(list, "medium"),
     lowSeverity |-> Count(list, "low")]

-----------------------------------------------------------------------------
(* analyzeDocumentation, one action per stage                               *)

NoSummary ==
    [totalIssues |-> 0, highSeverity |-> 0, mediumSeverity |-> 0, lowSeverity |-> 0]
NoResult == [returned |-> FALSE, issues |-> <<>>, summary |-> NoSummary]
NoStructure == [projects |-> <<>>, listing |-> <<>>]
NoPrompt == [structure |-> NoStructure, docs |-> <<>>]
\* main() before it runs: the environment, the argument and the flags
CliState(githubToken, anthropicApiKey, url, createIssues, createPullRequest) ==
    [pc |-> "start", githubToken |-> githubToken, anthropicApiKey |-> anthropicApiKey,
     url |-> url, createIssues |-> createIssues,
     createPullRequest |-> createPullRequest,
     clones |-> 0, cloneSucceeded |-> FALSE, cloned |-> FALSE, analyses |-> 0, issueCalls |-> 0, prCalls |-> 0,
     cleanups |-> 0, warnings |-> 0, errorLines |-> 0, exitCode |-> -1]
CliIdle ==
    [CliState(TRUE, TRUE, <<>>, FALSE, FALSE) EXCEPT !.pc = "idle"]

\* const documentationFiles = await this.findDocumentationFiles(repoPath)
ScanDocs ==
    /\ pc = "scanDocs"
    /\ stages' = Append(stages, "Scan")
    /\ docFiles' = findDocumentationFiles(tree)
    /\ pc' = "scanCode"
    /\ UNCHANGED <<tree, script, codeFiles, docContent, codeStructure, prompt, pending,
                   fullResponse, issues, parsed, summary, result, error, modelCalls, cli>>

\* const codeFiles = await this.findCodeFiles(repoPath)
ScanCode ==
    /\ pc = "scanCode"
    /\ stages' = stages
    /\ codeFiles' = findCodeFiles(tree)
    /\ pc' = "readFiles"
    /\ UNCHANGED <<tree, script, docFiles, docContent, codeStructure, prompt, pending,
                   fullResponse, issues, parsed, summary, result, error, modelCalls, cli>>

\* performClaudeAnalysis: const documentationContent = await this.readFiles(...)
LoadDocs ==
    /\ pc = "readFiles"
    /\ stages' = Append(stages, "Load")
    /\ docContent' = readFiles(tree, docFiles)
    /\ pc' = "codeStructure"
    /\ UNCHANGED <<tree, script, docFiles, codeFiles, codeStructure, prompt, pending,
                   fullResponse, issues, parsed, summary, result, error, modelCalls, cli>>

\* const codeStructure = await this.getCodeStructure(repoPath, codeFiles)
SummarizeCode ==
    /\ pc = "codeStructure"
    /\ stages' = Append(stages, "SummarizeCode")
    /\ codeStructure' = getCodeStructure(tree, codeFiles)
    /\ pc' = "buildPrompt"
    /\ UNCHANGED <<tree, script, docFiles, codeFiles, docContent, prompt, pending,
                   fullResponse, issues, parsed, summary, result, error, modelCalls, cli>>

\* const prompt = this.buildAnalysisPrompt(documentationContent, codeStructure)
BuildPrompt ==
    /\ pc = "buildPrompt"
    /\ stages' = Append(stages, "BuildPrompt")
    /\ prompt' = buildAnalysisPrompt(docContent, codeStructure)
    /\ pc' = "query"
    /\ UNCHANGED <<tree, script, docFiles, codeFiles, docContent, codeStructure, pending,
                   fullResponse, issues, parsed, summary, result, error, modelCalls, cli>>

\* const response = query({prompt, options}); let fullResponse = ""
CallModel ==
    /\ pc = "query"
    /\ stages' = Append(stages, "CallModel")
    /\ modelCalls' = modelCalls + 1
    /\ pending' = script
    /\ fullResponse' = <<>>
    /\ pc' = "stream"
    /\ UNCHANGED <<tree, script, docFiles, codeFiles, docContent, codeStructure, prompt,
                   issues, parsed, summary, result, error, cli>>

\* one turn of for await (const message of response)
ConsumeMessage ==
    /\ pc = "stream"
    /\ stages' = stages
    /\ pending # <<>>
    /\ fullResponse' = fullResponse \o messageText(Head(pending))
    /\ pending' = Tail(pending)
    /\ UNCHANGED <<pc, tree, script, docFiles, codeFiles, docContent, codeStructure,
                   prompt, issues, parsed, summary, result, error, modelCalls, cli>>

\* ModelFails with a catch that hands back what it has instead of rethrowing
ModelFailsPartial ==
    /\ pc = "stream"
    /\ stages' = stages
    /\ error' = <<"Failed to analyze documentation: ", "Claude analysis failed: ",
                  "service error">>
    /\ result' = [returned |-> TRUE, issues |-> issues, summary |-> summary]
    /\ pc' = "failed"
    /\ UNCHANGED <<tree, script, docFiles, codeFiles, docContent, codeStructure, prompt,
                   pending, fullResponse, issues, parsed, summary, modelCalls, cli>>

\* the service or its stream raises: performClaudeAnalysis wraps the error, the
\* catch of analyzeDocumentation wraps it again and rethrows
ModelFails ==
    /\ pc = "stream"
    /\ stages' = stages
    /\ error' = <<"Failed to analyze documentation: ", "Claude analysis failed: ",
                  "service error">>
    /\ pc' = "failed"
    /\ UNCHANGED <<tree, script, docFiles, codeFiles, docContent, codeStructure, prompt,
                   pending, fullResponse, issues, parsed, summary, result, modelCalls,
                   cli>>

\* Parse that does not wait for the end of the stream
ParseEarly ==
    /\ pc = "stream"
    /\ stages' = Append(stages, "Parse")
    /\ issues' = parseClaudeResponse(fullResponse)
    /\ parsed' = issues'
    /\ pc' = "sort"
    /\ UNCHANGED <<tree, script, docFiles, codeFiles, docContent, codeStructure, prompt,
                   pending, fullResponse, summary, result, error, modelCalls, cli>>

\* the stream is exhausted: return this.parseClaudeResponse(fullResponse)
Parse ==
    /\ pc = "stream"
    /\ stages' = Append(stages, "Parse")
    /\ pending = <<>>
    /\ issues' = parseClaudeResponse(fullResponse)
    /\ parsed' = issues'
    /\ pc' = "sort"
    /\ UNCHANGED <<tree, script, docFiles, codeFiles, docContent, codeStructure, prompt,
                   pending, fullResponse, summary, result, error, modelCalls, cli>>

\* issues.sort((a, b) => ...)
Rank ==
    /\ pc = "sort"
    /\ stages' = Append(stages, "Rank")
    /\ issues' = sortIssues(issues)
    /\ pc' = "summary"
    /\ UNCHANGED <<tree, script, docFiles, codeFiles, docContent, codeStructure, prompt,
                   pending, fullResponse, parsed, summary, result, error, modelCalls, cli>>

\* const summary = this.generateSummary(issues)
Summarize ==
    /\ pc = "summary"
    /\ stages' = Append(stages, "SummarizeCounts")
    /\ summary' = generateSummary(issues)
    /\ pc' = "return"
    /\ UNCHANGED <<tree, script, docFiles, codeFiles, docContent, codeStructure, prompt,
                   pending, fullResponse, issues, parsed, result, error, modelCalls, cli>>

\* return {repository, issues, summary, timestamp}
Assemble ==
    /\ pc = "return"
    /\ stages' = Append(stages, "Assemble")
    /\ result' = [returned |-> TRUE, issues |-> issues, summary |-> summary]
    /\ pc' = "returned"
    /\ UNCHANGED <<tree, script, docFiles, codeFiles, docContent, codeStructure, prompt,
                   pending, fullResponse, issues, parsed, summary, error, modelCalls, cli>>

Next ==
    \/ ScanDocs
    \/ ScanCode
    \/ LoadDocs
    \/ SummarizeCode
    \/ BuildPrompt
    \/ CallModel
    \/ ConsumeMessage
    \/ ModelFails
    \/ Parse
    \/ Rank
    \/ Summarize
    \/ Assemble

\* the state at the call of analyzeDocumentation(repoPath, repository)
Start(root, messages) ==
    /\ pc = "scanDocs"
    /\ tree = root
    /\ script = messages
    /\ docFiles = <<>>
    /\ codeFiles = <<>>
    /\ docContent = <<>>
    /\ codeStructure = NoStructure
    /\ prompt = NoPrompt
    /\ pending = <<>>
    /\ fullResponse = <<>>
    /\ issues = <<>>
    /\ parsed = <<>>
    /\ summary = NoSummary
    /\ result = NoResult
    /\ error = <<>>
    /\ modelCalls = 0
    /\ stages = <<>>
    /\ cli = CliIdle

-----------------------------------------------------------------------------
(* main(): the command-line run, one action per await                       *)

GitHubHost == "https://github.com/"

\* a URL token that holds no "/"
IsSegment(t) == t \notin {SEP, GitHubHost, "http://github.com/", "https://gitlab.com/"}

\* /^https:\/\/github\.com\/([^/]+)\/([^/]+?)(?:\.git)?(?:\/.*)?$/: the host,
\* an owner without "/", a "/", a repository name without "/" (less a final
\* .git), and then the end or a "/" and anything
parseGitHubUrl(url) ==
    LET slashes == {i \in 3..Len(url) : url[i] = SEP}
        slash == CHOOSE i \in slashes : \A j \in slashes : i <= j
        later == {i \in (slash + 1)..Len(url) : ~IsSegment(url[i])}
        repoEnd == IF later = {} THEN Len(url)
                   ELSE (CHOOSE i \in later : \A j \in later : i <= j) - 1
        name == SubSeq(url, slash + 1, repoEnd)
        ok == /\ Len(url) >= 4
              /\ url[1] = GitHubHost
              /\ slashes # {}
              /\ \A i \in 2..(slash - 1) : IsSegment(url[i])
              /\ name # <<>>
              /\ (repoEnd = Len(url) \/ url[repoEnd + 1] = SEP)
    IN IF ok
       THEN [ok |-> TRUE, owner |-> SubSeq(url, 2, slash - 1),
             repo |-> IF Len(name) > 1 /\ name[Len(name)] = ".git"
                      THEN SubSeq(name, 1, Len(name) - 1) ELSE name]
       ELSE [ok |-> FALSE, owner |-> <<>>, repo |-> <<>>]

\* getConfig(): both credentials must be set
getConfig(state) == [ok |-> state.githubToken /\ state.anthropicApiKey]

\* analyzeDocumentation as one call whose model service answers without an
\* error; the scans, the loader and the prompt feed the service only
analyzeDocumentation(root, messages) ==
    LET ranked == sortIssues(parseClaudeResponse(collectResponse(messages))) IN
    [returned |-> TRUE, issues |-> ranked, summary |-> generateSummary(ranked)]

\* catch (error) { console.error(...); process.exit(1) }
Exit1(state) ==
    [state EXCEPT !.pc = "exited", !.errorLines = @ + 1, !.exitCode = 1]

\* await gitOps.cleanup(repoPath) is begun
BeginCleanup(state) == [state EXCEPT !.pc = "cleaning", !.cleanups = @ + 1]

\* if (cliOptions.createPullRequest) { await createPullRequestWithFixes } cleanup
AfterIssues(state) ==
    IF state.createPullRequest
    THEN [state EXCEPT !.pc = "creatingPr", !.prCalls = @ + 1]
    ELSE BeginCleanup(state)

\* AfterAnalysis that creates issues whenever there are any
AfterAnalysisUnflagged(state, analysis) ==
    IF Len(analysis.issues) > 0
    THEN [state EXCEPT !.pc = "creatingIssues", !.issueCalls = @ + 1]
    ELSE AfterIssues(state)

\* if (cliOptions.createIssues && analysisResult.issues.length > 0) ...
AfterAnalysis(state, analysis) ==
    IF state.createIssues /\ Len(analysis.issues) > 0
    THEN [state EXCEPT !.pc = "creatingIssues", !.issueCalls = @ + 1]
    ELSE AfterIssues(state)

\* CliStart that clones before the URL is looked at
CliStartUnchecked ==
    /\ cli.pc = "start"
    /\ cli' = IF ~getConfig(cli).ok
              THEN Exit1(cli)
              ELSE [cli EXCEPT !.pc = "cloning", !.clones = @ + 1]
    /\ UNCHANGED <<pc, tree, script, docFiles, codeFiles, docContent, codeStructure,
                   prompt, pending, fullResponse, issues, parsed, summary, result,
                   error, modelCalls, stages>>

\* getConfig, parseGitHubUrl, the constructors, and the call of cloneRepository
CliStart ==
    /\ cli.pc = "start"
    /\ cli' = IF ~getConfig(cli).ok \/ ~parseGitHubUrl(cli.url).ok
              THEN Exit1(cli)
              ELSE [cli EXCEPT !.pc = "cloning", !.clones = @ + 1]
    /\ UNCHANGED <<pc, tree, script, docFiles, codeFiles, docContent, codeStructure,
                   prompt, pending, fullResponse, issues, parsed, summary, result,
                   error, modelCalls, stages>>

\* cloneRepository returns the path of the clone
CliCloned ==
    /\ cli.pc = "cloning"
    /\ cli' = [cli EXCEPT !.pc = "analyzing", !.cloneSucceeded = TRUE,
                       !.cloned = TRUE, !.analyses = @ + 1]
    /\ UNCHANGED <<pc, tree, script, docFiles, codeFiles, docContent, codeStructure,
                   prompt, pending, fullResponse, issues, parsed, summary, result,
                   error, modelCalls, stages>>

\* cloneRepository throws
CliCloneFails ==
    /\ cli.pc = "cloning"
    /\ cli' = Exit1(cli)
    /\ UNCHANGED <<pc, tree, script, docFiles, codeFiles, docContent, codeStructure,
                   prompt, pending, fullResponse, issues, parsed, summary, result,
                   error, modelCalls, stages>>

\* analyzeDocumentation returns; the report is printed
CliAnalyzed ==
    /\ cli.pc = "analyzing"
    /\ result' = analyzeDocumentation(tree, script)
    /\ cli' = AfterAnalysis(cli, result')
    /\ UNCHANGED <<pc, tree, script, docFiles, codeFiles, docContent, codeStructure,
                   prompt, pending, fullResponse, issues, parsed, summary, error,
                   modelCalls, stages>>

\* analyzeDocumentation throws
CliAnalysisFails ==
    /\ cli.pc = "analyzing"
    /\ cli' = Exit1(cli)
    /\ error' = <<"Failed to analyze documentation: ", "Claude analysis failed: ",
                  "service error">>
    /\ UNCHANGED <<pc, tree, script, docFiles, codeFiles, docContent, codeStructure,
                   prompt, pending, fullResponse, issues, parsed, summary, result,
                   modelCalls, stages>>

\* createIssuesFromAnalysis returns
CliIssuesCreated ==
    /\ cli.pc = "creatingIssues"
    /\ cli' = AfterIssues(cli)
    /\ UNCHANGED <<pc, tree, script, docFiles, codeFiles, docContent, codeStructure,
                   prompt, pending, fullResponse, issues, parsed, summary, result,
                   error, modelCalls, stages>>

\* createIssuesFromAnalysis throws
CliIssuesFail ==
    /\ cli.pc = "creatingIssues"
    /\ cli' = Exit1(cli)
    /\ UNCHANGED <<pc, tree, script, docFiles, codeFiles, docContent, codeStructure,
                   prompt, pending, fullResponse, issues, parsed, summary, result,
                   error, modelCalls, stages>>

\* createPullRequestWithFixes returns
CliPrCreated ==
    /\ cli.pc = "creatingPr"
    /\ cli' = BeginCleanup(cli)
    /\ UNCHANGED <<pc, tree, script, docFiles, codeFiles, docContent, codeStructure,
                   prompt, pending, fullResponse, issues, parsed, summary, result,
                   error, modelCalls, stages>>

\* createPullRequestWithFixes throws
CliPrFails ==
    /\ cli.pc = "creatingPr"
    /\ cli' = Exit1(cli)
    /\ UNCHANGED <<pc, tree, script, docFiles, codeFiles, docContent, codeStructure,
                   prompt, pending, fullResponse, issues, parsed, summary, result,
                   error, modelCalls, stages>>

\* GitOperations.cleanup: fs.rm removes the clone, or fails and is only warned
\* about; main() then ends
CliCleaned ==
    /\ cli.pc = "cleaning"
    /\ \E removed \in BOOLEAN :
          cli' = [cli EXCEPT !.pc = "exited", !.exitCode = 0,
                             !.cloned = ~removed,
                             !.warnings = IF removed THEN @ ELSE @ + 1]
    /\ UNCHANGED <<pc, tree, script, docFiles, codeFiles, docContent, codeStructure,
                   prompt, pending, fullResponse, issues, parsed, summary, result,
                   error, modelCalls, stages>>

NextCli ==
    \/ CliStart
    \/ CliCloned
    \/ CliCloneFails
    \/ CliAnalyzed
    \/ CliAnalysisFails
    \/ CliIssuesCreated
    \/ CliIssuesFail
    \/ CliPrCreated
    \/ CliPrFails
    \/ CliCleaned

-----------------------------------------------------------------------------
(* Inputs: working trees                                                    *)

Plain(name) == File(name, <<"a">>, TRUE)
Run(n, ext) == [i \in 1..n |-> File(<<ToString(i), ext>>, <<>>, TRUE)]
RunSizes == {0, MaxRun, FileCap - 1, FileCap + 1}

\* a small repository
SmallTree ==
    Dir(<<"repo">>, TRUE,
        <<Plain(<<"README", ".md">>),
          Dir(<<"src">>, TRUE, <<Plain(<<"index", ".ts">>)>>),
          Plain(<<"package", ".json">>)>>)

EmptyTree == Dir(<<"repo">>, TRUE, <<>>)
UnreadableTree == Dir(<<"repo">>, FALSE, <<Plain(<<"README", ".md">>)>>)

DirNames == CodeIgnored \cup {<<"src">>, <<"docs">>}
DirChoices ==
    {[name |-> d, readable |-> TRUE] : d \in DirNames}
        \cup {[name |-> <<"src">>, readable |-> FALSE]}

\* directories d1 (top level) and d2 (nested) hold runs of documentation and
\* code files; files, other entries and directories are interleaved
ScanTree(d1, n1, d2, n2, n3) ==
    Dir(<<"repo">>, TRUE,
        <<Dir(d1.name, d1.readable,
              Run(n1, ".md") \o <<Plain(<<"README", ".ts">>)>>),
          Plain(<<"README", ".MD">>),
          Other(<<"link", ".md">>),
          Dir(<<"lib">>, TRUE,
              <<Plain(<<"index", ".ts">>),
                Dir(d2, TRUE, Run(n2, ".ts") \o <<Plain(<<"notes", ".txt">>)>>),
                Plain(<<"requirements", ".txt">>)>>),
          Plain(<<"logo", ".png">>)>>
        \o Run(n3, ".md"))

ScanTrees ==
    {EmptyTree, UnreadableTree}
        \cup {ScanTree(d1, n1, d2, n2, n3) :
                 d1 \in DirChoices, n1 \in RunSizes, d2 \in DirNames,
                 n2 \in RunSizes, n3 \in {0, MaxRun}}

Contents == SeqsUpTo({"a", NUL}, MaxNul + 1)
FileStates ==
    {[content |-> c, readable |-> TRUE] : c \in Contents}
        \cup {[content |-> <<"a">>, readable |-> FALSE]}

\* three documentation files, any of them unreadable, with null bytes inside
LoadTree(f1, f2, r3) ==
    Dir(<<"repo">>, TRUE,
        <<File(<<"README", ".md">>, f1.content, f1.readable),
          Dir(<<"docs">>, TRUE, <<File(<<"guide", ".rst">>, f2.content, f2.readable)>>),
          File(<<"package", ".json">>, <<"a", NUL, "a">>, r3),
          File(<<"requirements", ".txt">>, <<NUL, "a">>, r3)>>)

LoadTrees == {LoadTree(f1, f2, r3) : f1 \in FileStates, f2 \in FileStates, r3 \in BOOLEAN}

-----------------------------------------------------------------------------
(* Inputs: what the model service answers                                   *)

\* titles number the elements of an array, so that equal issues stay apart
Titled(elems) ==
    [i \in 1..Len(elems) |->
        IF elems[i].title = "A" THEN [elems[i] EXCEPT !.title = ToString(i)]
        ELSE elems[i]]

ParseElems ==
    {Obj("missing", sv, e, "A", "d") : sv \in Severities, e \in {"low", "huge"}}
        \cup {Obj(Undefined, "high", "low", "A", "d"),
              Obj("bogus", "high", "low", "A", "d"),
              Obj("outdated", Undefined, "low", "A", "d"),
              Obj("outdated", "critical", "low", "A", "d"),
              Obj("unclear", "low", Undefined, "A", "d"),
              Obj("broken-link", "medium", "medium", Undefined, "d"),
              Obj("broken-link", "medium", "medium", "A", Undefined),
              NullElem, PrimElem}

RankElems ==
    {Obj("missing", sv, e, "A", "d") :
        sv \in Severities, e \in {"low", "medium", "high", "huge"}}

Fenced(value) ==
    <<AssistantBlocks(<<TextBlock(<<Prose, FenceOpen, JsonText(value), FenceClose,
                                    Prose>>)>>)>>

\* answers that hold no usable fenced array
OddScripts ==
    {<<>>,
     <<AssistantString(<<Prose>>)>>,
     <<AssistantString(<<FenceOpen, BadJson, FenceClose>>)>>,
     <<AssistantString(<<FenceOpen, FenceClose>>)>>,
     <<AssistantString(<<FenceOpen, Prose, JsonText(JArray(<<>>)), FenceClose>>)>>,
     <<AssistantString(<<FenceOpen, JsonText(JArray(<<>>))>>)>>,
     <<AssistantString(<<Prose, JsonText(JArray(Titled(<<Obj("missing", "high", "low", "A", "d")>>)))>>)>>,
     <<AssistantString(<<Backslash, LBracket, LetterS, Backslash, Backslash, RBracket>>)>>,
     Fenced(JObject),
     <<AssistantString(<<FenceOpen, BadJson, FenceClose, FenceOpen,
                         JsonText(JArray(<<>>)), FenceClose>>)>>,
     <<ControlMessage("system"),
       AssistantBlocks(<<ToolUseBlock, TextBlock(<<FenceOpen>>)>>),
       ControlMessage("user"),
       AssistantString(<<JsonText(JArray(Titled(<<Obj("unclear", "low", "high", "A", "d")>>)))>>),
       ResultMessage("error_max_turns", <<Prose>>),
       ResultMessage("success", <<FenceClose>>)>>}

ParseScripts ==
    OddScripts \cup {Fenced(JArray(Titled(p))) : p \in SeqsUpTo(ParseElems, MaxLen)}
RankScripts == {Fenced(JArray(Titled(p))) : p \in SeqsUpTo(RankElems, MaxLen)}
FewScripts ==
    {<<>>, Fenced(JArray(<<>>)),
     Fenced(JArray(Titled(<<Obj("missing", "high", "low", "A", "d")>>)))}

-----------------------------------------------------------------------------
(* Specifications: the pipeline over each family of inputs                  *)

Init == \E root \in {SmallTree, EmptyTree}, messages \in OddScripts \cup FewScripts :
            Start(root, messages)
InitParse == \E messages \in ParseScripts : Start(SmallTree, messages)
InitRank == \E messages \in RankScripts : Start(SmallTree, messages)
InitScan == \E root \in ScanTrees, messages \in {Fenced(JArray(<<>>))} :
                Start(root, messages)
InitLoad == \E root \in LoadTrees, messages \in {Fenced(JArray(<<>>))} :
                Start(root, messages)

Urls ==
    {<<GitHubHost, "owner", SEP, "repo">>,
     <<GitHubHost, "owner", SEP, "repo", ".git">>,
     <<GitHubHost, "owner", SEP, "repo", SEP, "tree">>,
     <<GitHubHost, "owner", SEP, ".git">>,
     <<GitHubHost, "owner">>,
     <<GitHubHost, SEP, "repo">>,
     <<"http://github.com/", "owner", SEP, "repo">>,
     <<"https://gitlab.com/", "owner", SEP, "repo">>}

\* directory and file names that hold the words of the documentation patterns
\* at the start, in the middle and as the whole of a name
ClassifyDirs ==
    {<<"src">>, <<"docs">>, <<"Doc">>, <<"my", "docs">>, <<"docs", "-old">>,
     <<"readme", "-assets">>, <<"license", "s">>}
ClassifyFiles ==
    {<<"logo", ".png">>, <<"index", ".ts">>, <<"CHANGELOG">>, <<"guide", ".MD">>,
     <<"notes", ".rst">>, <<"my", "license", ".png">>, <<"docs">>}

\* a directory d with a file f and a subdirectory, and a file g at both depths
ClassifyTree(d, f, g) ==
    Dir(<<"repo">>, TRUE,
        <<Dir(d, TRUE, <<Plain(f), Dir(<<"sub">>, TRUE, <<Plain(g)>>)>>),
          Plain(g)>>)

ClassifyTrees ==
    {ClassifyTree(d, f, g) : d \in ClassifyDirs, f \in ClassifyFiles,
                             g \in ClassifyFiles}

InitClassify == \E root \in ClassifyTrees, messages \in {Fenced(JArray(<<>>))} :
                    Start(root, messages)

\* messages of every kind, each with a text of its own: assistant messages with
\* string content, with text blocks around a tool-use block, and with a
\* tool-use block only; results with and without success; a user message and
\* a system message
StreamMessages ==
    {AssistantString(<<Prose>>),
     AssistantBlocks(<<TextBlock(<<FenceOpen>>),
                       [type |-> "tool_use", text |-> <<Backslash>>],
                       TextBlock(<<JsonText(JArray(<<>>))>>)>>),
     AssistantBlocks(<<[type |-> "thinking", text |-> <<LBracket>>]>>),
     ResultMessage("success", <<FenceClose>>),
     ResultMessage("error_max_turns", <<BadJson>>),
     ResultMessage("error_during_execution", <<>>),
     [type |-> "user", subtype |-> Undefined, content |-> "string",
      blocks |-> <<>>, text |-> <<LetterS>>],
     [type |-> "system", subtype |-> "init", content |-> Undefined,
      blocks |-> <<>>, text |-> <<RBracket>>]}

\* the service ends a stream with its one result message, when it sends one
StreamScripts ==
    {messages \in SeqsUpTo(StreamMessages, MaxMsgs) :
        \A i \in 1..(Len(messages) - 1) : messages[i].type # "result"}

InitStream == \E messages \in StreamScripts : Start(EmptyTree, messages)

\* main() is entered; analyzeDocumentation has not been called
InitCli ==
    \E githubToken, anthropicApiKey, createIssues, createPullRequest \in BOOLEAN,
       url \in Urls, messages \in FewScripts :
        /\ pc = "idle"
        /\ tree = SmallTree
        /\ script = messages
        /\ docFiles = <<>>
        /\ codeFiles = <<>>
        /\ docContent = <<>>
        /\ codeStructure = NoStructure
        /\ prompt = NoPrompt
        /\ pending = <<>>
        /\ fullResponse = <<>>
        /\ issues = <<>>
        /\ parsed = <<>>
        /\ summary = NoSummary
        /\ result = NoResult
        /\ error = <<>>
        /\ modelCalls = 0
        /\ stages = <<>>
        /\ cli = CliState(githubToken, anthropicApiKey, url, createIssues,
                          createPullRequest)

Spec == Init /\ [][Next]_vars
SpecCli == InitCli /\ [][NextCli]_vars
SpecParse == InitParse /\ [][Next]_vars
SpecRank == InitRank /\ [][Next]_vars
SpecClassify == InitClassify /\ [][Next]_vars
SpecStream == InitStream /\ [][Next]_vars
SpecScan == InitScan /\ [][Next]_vars
SpecLoad == InitLoad /\ [][Next]_vars

-----------------------------------------------------------------------------
(* Properties                                                               *)

AfterParse == {"sort", "summary", "return", "returned"}

\* what JSON.parse was handed and made of it, for a response
Handed(response) ==
    LET m == jsonMatch(response)
        plain == plainJsonMatch(response)
    IN IF m.found /\ m.group # <<>> THEN [any |-> TRUE, fenced |-> TRUE, text |-> m.group]
       ELSE IF plain.found THEN [any |-> TRUE, fenced |-> FALSE, text |-> plain.group]
       ELSE [any |-> FALSE, fenced |-> FALSE, text |-> <<>>]

\* no fenced block and no plain match, or JSON.parse throws
Unparseable(response) ==
    \/ ~Handed(response).any
    \/ ~jsonParse(Handed(response).text).ok

\* a fenced block that parses to a JSON array
FencedArray(response) ==
    /\ Handed(response).fenced
    /\ jsonParse(Handed(response).text).ok
    /\ jsonParse(Handed(response).text).value.k = "array"

\* C1: every AnalysisResult returned has summary.totalIssues = issues.length and
\* its three severity counts add up to totalIssues.
C1_SummaryInvariant ==
    result.returned =>
        /\ result.summary.totalIssues = Len(result.issues)
        /\ result.summary.highSeverity + result.summary.mediumSeverity
              + result.summary.lowSeverity = result.summary.totalIssues

\* C1 witness: a result with a high and a low issue, returned after the
\* parser dropped one of the three elements of the answer.
C1_Witness ==
    /\ result.returned
    /\ FencedArray(fullResponse)
    /\ Len(jsonParse(Handed(fullResponse).text).value.elems) = 3
    /\ result.summary.totalIssues = 2
    /\ result.summary.highSeverity = 1
    /\ result.summary.lowSeverity = 1

\* C3: when the response holds no parseable JSON (no fenced block and no plain
\* match, or JSON.parse throws), the parser returns exactly one issue, of type
\* unclear, severity medium, effort medium, whose description carries the raw
\* response, and analyzeDocumentation returns a result holding that issue.
C3_FallbackIssue ==
    (pc \in AfterParse /\ Unparseable(fullResponse)) =>
        /\ Len(parsed) = 1
        /\ parsed[1].type = "unclear"
        /\ parsed[1].severity = "medium"
        /\ parsed[1].effort = "medium"
        /\ parsed[1].description.raw = fullResponse
        /\ error = <<>>
        /\ (pc = "returned" =>
               /\ result.returned
               /\ result.issues = parsed
               /\ result.summary.totalIssues = 1)

\* C3 witness: a run returned although JSON.parse threw on the fenced text.
C3_Witness ==
    /\ pc = "returned"
    /\ jsonMatch(fullResponse).found
    /\ Handed(fullResponse).any
    /\ ~jsonParse(Handed(fullResponse).text).ok
    /\ result.returned

\* an element with the five required properties and an allowed type and severity
WellFormed(e) ==
    /\ e.k = "object"
    /\ e.type \in IssueTypes
    /\ e.severity \in Severities
    /\ e.effort # Undefined
    /\ e.title # Undefined
    /\ e.description.text # Undefined

\* C4: for every JSON array found in a fenced block the parser returns exactly
\* the well-formed elements, in input order; an element that is not well formed
\* (null included) is dropped alone.
C4_DropsOnlyInvalid ==
    (pc \in AfterParse /\ FencedArray(fullResponse)) =>
        parsed = SelectSeq(jsonParse(Handed(fullResponse).text).value.elems, WellFormed)

\* C6: every issue of every AnalysisResult has an allowed type, an allowed
\* severity and an allowed effort.
C6_IssueSchema ==
    result.returned =>
        \A i \in 1..Len(result.issues) :
            /\ result.issues[i].type \in IssueTypes
            /\ result.issues[i].severity \in Severities
            /\ result.issues[i].effort \in Efforts

Occurrences(list, x) == Cardinality({i \in 1..Len(list) : list[i] = x})
IsPermutation(a, b) ==
    /\ Len(a) = Len(b)
    /\ \A x \in Range(a) \cup Range(b) : Occurrences(a, x) = Occurrences(b, x)
PositionIn(list, x) == CHOOSE i \in 1..Len(list) : list[i] = x

SeverityRank(issue) ==
    CASE issue.severity = "high" -> 1 [] issue.severity = "medium" -> 2
      [] issue.severity = "low" -> 3 [] OTHER -> 0
EffortRank(issue) ==
    CASE issue.effort = "low" -> 1 [] issue.effort = "medium" -> 2
      [] issue.effort = "high" -> 3 [] OTHER -> 0

\* C5: the issues of a result are a permutation of what the parser returned,
\* ordered by severity (high, medium, low) and within a severity by effort
\* (low, medium, high); issues equal in both keys keep their input order.
C5_RankedStable ==
    result.returned =>
        /\ IsPermutation(result.issues, parsed)
        /\ \A i, j \in 1..Len(result.issues) :
              i < j =>
                 LET a == result.issues[i]
                     b == result.issues[j]
                 IN /\ SeverityRank(a) <= SeverityRank(b)
                    /\ (a.severity = b.severity /\ EffortRank(a) > 0 /\ EffortRank(b) > 0)
                          => EffortRank(a) <= EffortRank(b)
                    /\ (a.severity = b.severity /\ a.effort = b.effort)
                          => PositionIn(parsed, a) < PositionIn(parsed, b)


\* the files a depth-first walk reaches, each with its position: the index of
\* every directory entry on the way down from the root
RECURSIVE Reached(_, _, _, _)
Reached(dir, rel, pos, ignored) ==
    IF ~dir.readable THEN {}
    ELSE UNION {
        LET entry == dir.children[i]
            path == join(rel, entry.name)
        IN CASE entry.kind = "file" -> {[path |-> path, pos |-> Append(pos, i)]}
             [] entry.kind = "dir" /\ entry.name \notin ignored ->
                    Reached(entry, path, Append(pos, i), ignored)
             [] OTHER -> {}
        : i \in 1..Len(dir.children)}

\* p comes before q in the depth-first order
Before(p, q) ==
    \E k \in 1..Min(Len(p), Len(q)) :
        /\ p[k] < q[k]
        /\ \A m \in 1..(k - 1) : p[m] = q[m]

\* list is the first FileCap of matches, in depth-first order
FirstFound(list, matches) ==
    LET posOf(path) == (CHOOSE v \in matches : v.path = path).pos IN
    /\ Len(list) <= FileCap
    /\ Len(list) = Min(FileCap, Cardinality(matches))
    /\ \A i \in 1..Len(list) : \E v \in matches : v.path = list[i]
    /\ \A i \in 1..(Len(list) - 1) : Before(posOf(list[i]), posOf(list[i + 1]))
    /\ \A v \in matches :
          (\A i \in 1..Len(list) : list[i] # v.path)
              => Before(posOf(list[Len(list)]), v.pos)

DocMatches == {v \in Reached(tree, <<>>, <<>>, DocIgnored) : docPatterns(v.path)}
CodeMatches == {v \in Reached(tree, <<>>, <<>>, CodeIgnored) : codePatterns(v.path)}

\* C7: each scanner returns at most 50 paths, and they are the first (up to
\* 50) matching files in the order the depth-first walk meets them.
C7_FirstFoundCap ==
    pc = "readFiles" =>
        /\ FirstFound(docFiles, DocMatches)
        /\ FirstFound(codeFiles, CodeMatches)

\* C7 witness: both scanners met more than 50 matching files and cut the list.
C7_Witness ==
    /\ pc = "readFiles"
    /\ Cardinality(DocMatches) > FileCap
    /\ Cardinality(CodeMatches) > FileCap
    /\ Len(docFiles) = FileCap
    /\ Len(codeFiles) = FileCap

\* the path has a directory segment of one of the eight ignored names
InsideIgnored(path) ==
    \E i \in 1..(Len(path) - 1) :
        /\ <<path[i]>> \in CodeIgnored
        /\ path[i + 1] = SEP
        /\ (i = 1 \/ path[i - 1] = SEP)

\* C8: neither the documentation list nor the code list holds a path inside a
\* directory named node_modules, .git, dist, build, .next, coverage, target or
\* __pycache__.
C8_NoIgnoredSubtree ==
    pc = "readFiles" =>
        /\ \A i \in 1..Len(docFiles) : ~InsideIgnored(docFiles[i])
        /\ \A i \in 1..Len(codeFiles) : ~InsideIgnored(codeFiles[i])

RECURSIVE WithoutNul(_)
WithoutNul(text) ==
    IF text = <<>> THEN <<>>
    ELSE IF Head(text) = NUL THEN WithoutNul(Tail(text))
    ELSE <<Head(text)>> \o WithoutNul(Tail(text))

FileOf(path) ==
    LET all == allFiles(tree.children, <<>>) IN
    all[CHOOSE i \in 1..Len(all) : all[i].path = path]

\* C9: readFiles returns one entry for every path it was given: the content
\* without null bytes for a readable file, the placeholder for an unreadable one.
C9_OneEntryPerPath ==
    pc = "codeStructure" =>
        /\ Len(docContent) = Len(docFiles)
        /\ \A i \in 1..Len(docFiles) :
              LET entries == {j \in 1..Len(docContent) : docContent[j][1] = docFiles[i]}
                  file == FileOf(docFiles[i])
              IN /\ Cardinality(entries) = 1
                 /\ \A j \in entries :
                       docContent[j][2] =
                           IF file.readable THEN WithoutNul(file.content)
                           ELSE <<"[Could not read file]">>

\* C9 witness: of three files one was unreadable and one held two null bytes.
C9_Witness ==
    /\ pc = "codeStructure"
    /\ Len(docFiles) = 3
    /\ \E i \in 1..Len(docFiles) : ~FileOf(docFiles[i]).readable
    /\ \E i \in 1..Len(docFiles) :
          /\ FileOf(docFiles[i]).readable
          /\ Len(FileOf(docFiles[i]).content) - Len(docContent[i][2]) >= 2

StageOrder ==
    <<"Scan", "Load", "SummarizeCode", "BuildPrompt", "CallModel", "Parse", "Rank",
      "SummarizeCounts", "Assemble">>

\* C10: the stages of a run begin in the order Scan, Load, SummarizeCode,
\* BuildPrompt, CallModel, Parse, Rank, SummarizeCounts, Assemble, each at most
\* once; the model service is called at most once; parsing begins only when the
\* stream is consumed, and a result exists only after all stages.
C10_StageOrder ==
    /\ Len(stages) <= Len(StageOrder)
    /\ stages = SubSeq(StageOrder, 1, Len(stages))
    /\ modelCalls <= 1
    /\ modelCalls = Cardinality({i \in 1..Len(stages) : stages[i] = "CallModel"})
    /\ (\E i \in 1..Len(stages) : stages[i] = "Parse") =>
          (pending = <<>> /\ fullResponse = collectResponse(script))
    /\ result.returned => (stages = StageOrder /\ pending = <<>>)

\* C10 witness: a run returned after a stream of several messages.
C10_Witness ==
    /\ pc = "returned"
    /\ result.returned
    /\ Len(script) >= 2
    /\ stages = StageOrder


\* C2: a run in which cloneRepository succeeded attempts the cleanup of the
\* clone before the process ends, on every path.
C2_CleanupAttempted ==
    (cli.pc = "exited" /\ cli.cloneSucceeded) => cli.cleanups > 0


\* the wrappers around the cause of an error message
Wrappers(message) == IF message = <<>> THEN <<>> ELSE SubSeq(message, 1, Len(message) - 1)

\* a result is returned only by a run that went through every stage
CompleteResult ==
    result.returned =>
        /\ pc = "returned"
        /\ error = <<>>
        /\ stages = StageOrder
        /\ result.issues = issues
        /\ result.summary = summary

\* C11 as stated: a run returns a complete result or raises one error that was
\* caught once and wrapped once; a failed run returns no result.
C11_WrappedOnce ==
    /\ CompleteResult
    /\ pc = "failed" => (Len(Wrappers(error)) = 1 /\ ~result.returned)

\* C11 as amended: a run returns a complete result or raises one error; an
\* error of the model service is wrapped by performClaudeAnalysis and again by
\* analyzeDocumentation; a failed run returns no result.
C11_ResultOrWrappedError ==
    /\ CompleteResult
    /\ (error # <<>>) <=> (pc = "failed")
    /\ pc = "failed" =>
          /\ Wrappers(error) =
                <<"Failed to analyze documentation: ", "Claude analysis failed: ">>
          /\ result = NoResult

\* C11 witness: the stream failed after text had arrived.
C11_Witness ==
    /\ pc = "failed"
    /\ fullResponse # <<>>
    /\ pending # <<>>
    /\ error # <<>>


\* the form https://github.com/<owner>/<repo>[.git][/...]: the host, an owner
\* and a repository name that hold no "/", and then nothing or a "/" and more
MatchesGitHubForm(url) ==
    \E i \in 2..Len(url), j \in 2..Len(url) :
        /\ url[1] = GitHubHost
        /\ i > 2
        /\ url[i] = SEP
        /\ j > i
        /\ \A k \in (2..(i - 1)) \cup ((i + 1)..j) : IsSegment(url[k])
        /\ (j = Len(url) \/ url[j + 1] = SEP)

\* a run that must not start: a credential is missing or the URL is malformed
InvalidInput ==
    \/ ~cli.githubToken
    \/ ~cli.anthropicApiKey
    \/ ~MatchesGitHubForm(cli.url)

\* C12: a run with a malformed URL or a missing credential never clones, never
\* calls the analysis, never creates an issue or a pull request, and ends with
\* exit status 1.
C12_FailFast ==
    InvalidInput =>
        /\ cli.clones = 0
        /\ ~cli.cloned
        /\ cli.analyses = 0
        /\ ~result.returned
        /\ cli.issueCalls = 0
        /\ cli.prCalls = 0
        /\ cli.cleanups = 0
        /\ cli.pc \in {"start", "exited"}
        /\ cli.pc = "exited" => (cli.exitCode = 1 /\ cli.errorLines = 1)

\* C12 witness: both credentials are set, the URL is malformed, the run ended.
C12_Witness ==
    /\ cli.githubToken
    /\ cli.anthropicApiKey
    /\ ~MatchesGitHubForm(cli.url)
    /\ cli.pc = "exited"
    /\ cli.exitCode = 1


\* C13: createIssuesFromAnalysis is called only with --create-issues and a
\* non-empty issue list, createPullRequestWithFixes only with --create-pr, both
\* only after analyzeDocumentation returned; a run with neither flag calls
\* neither.
C13_WritesOnlyWithFlag ==
    /\ cli.issueCalls > 0 =>
          /\ cli.createIssues
          /\ result.returned
          /\ error = <<>>
          /\ Len(result.issues) > 0
    /\ cli.prCalls > 0 =>
          /\ cli.createPullRequest
          /\ result.returned
          /\ error = <<>>
    /\ cli.pc = "creatingIssues" => cli.issueCalls = 1
    /\ cli.pc = "creatingPr" => cli.prCalls = 1
    /\ (~cli.createIssues /\ ~cli.createPullRequest) =>
          /\ cli.issueCalls = 0
          /\ cli.prCalls = 0
          /\ cli.pc \in {"start", "cloning", "analyzing", "cleaning", "exited"}

\* C13 witness: a run without flags found issues, cleaned up and ended well.
C13_Witness ==
    /\ ~cli.createIssues
    /\ ~cli.createPullRequest
    /\ result.returned
    /\ Len(result.issues) > 0
    /\ cli.cleanups = 1
    /\ cli.pc = "exited"
    /\ cli.exitCode = 0


\* the file's name: the tokens after the last "/" of the path
FileName(p) ==
    LET seps == {i \in 1..Len(p) : p[i] = SEP}
        last == IF seps = {} THEN 0 ELSE CHOOSE i \in seps : \A j \in seps : j <= i
    IN SubSeq(p, last + 1, Len(p))

\* the path has a directory segment that is exactly the one token t
HasDirectory(p, t) ==
    \E i \in 1..(Len(p) - 1) :
        /\ Lower(p[i]) = t
        /\ p[i + 1] = SEP
        /\ (i = 1 \/ p[i - 1] = SEP)

\* the documentation predicate as the claim words it
Documentation(p) ==
    LET name == FileName(p) IN
    \/ Lower(name[Len(name)]) \in {".md", ".rst", ".txt"}
    \/ \E i \in 1..Len(name) :
          Lower(name[i]) \in {"readme", "changelog", "contributing", "license"}
    \/ HasDirectory(p, "docs")
    \/ HasDirectory(p, "doc")

\* C14: a file the walk meets is listed as documentation if and only if its
\* extension is .md, .rst or .txt, or its name holds readme, changelog,
\* contributing or license, or a directory of its path is named docs or doc.
C14_DocumentationPredicate ==
    pc = "scanCode" =>
        \A v \in Reached(tree, <<>>, <<>>, DocIgnored) :
            (\E i \in 1..Len(docFiles) : docFiles[i] = v.path) <=> Documentation(v.path)


\* every piece of text a message carries, with where it sits
RECURSIVE Fragments(_)
Fragments(messages) ==
    IF messages = <<>> THEN <<>>
    ELSE LET message == Head(messages)
             here ==
                 IF message.blocks # <<>>
                 THEN [i \in 1..Len(message.blocks) |->
                          [message |-> message.type, subtype |-> message.subtype,
                           block |-> message.blocks[i].type,
                           text |-> message.blocks[i].text]]
                 ELSE <<[message |-> message.type, subtype |-> message.subtype,
                         block |-> Undefined, text |-> message.text]>>
         IN here \o Fragments(Tail(messages))

\* assistant text (a text block or string content) or the result of a success
Counted(fragment) ==
    \/ fragment.message = "assistant" /\ fragment.block \in {"text", Undefined}
    \/ fragment.message = "result" /\ fragment.subtype = "success"

RECURSIVE Concat(_)
Concat(fragments) ==
    IF fragments = <<>> THEN <<>>
    ELSE Head(fragments).text \o Concat(Tail(fragments))

AssistantText(messages) == Concat(SelectSeq(Fragments(messages), Counted))

\* C15: the response handed to the parser is the concatenation, in arrival
\* order, of the assistant text and the success results of the stream; no other
\* message and no other block adds to it.
C15_ResponseIsAssistantText ==
    /\ pc = "stream" =>
          fullResponse =
              AssistantText(SubSeq(script, 1, Len(script) - Len(pending)))
    /\ pc \in AfterParse =>
          /\ fullResponse = AssistantText(script)
          /\ parsed = parseClaudeResponse(AssistantText(script))

\* C15 witness: a stream of assistant text around a tool-use block, a user
\* message and a final success result was parsed.
C15_Witness ==
    /\ pc \in AfterParse
    /\ Len(script) >= 3
    /\ \E i \in 1..Len(script) :
          script[i].type = "assistant" /\ \E b \in 1..Len(script[i].blocks) :
              script[i].blocks[b].type = "tool_use"
    /\ \E i \in 1..Len(script) : script[i].type = "user" /\ script[i].text # <<>>
    /\ script[Len(script)].type = "result"
    /\ script[Len(script)].subtype = "success"
    /\ Len(fullResponse) = 3


\* the JSON arrays a response holds outside of any fenced block
PlainArrays(response) ==
    {i \in 1..Len(response) : response[i].t = "json" /\ response[i].v.k = "array"}

\* C16: a response without a fenced block that holds a JSON array in its text is
\* parsed by the secondary path, and the validated elements of that array are
\* returned, not the fallback issue.
C16_SecondaryPathParses ==
    (/\ pc \in AfterParse
     /\ ~jsonMatch(fullResponse).found
     /\ Cardinality(PlainArrays(fullResponse)) = 1)
        => LET array == fullResponse[CHOOSE i \in PlainArrays(fullResponse) : TRUE].v IN
           ~filterThrows(array) =>
               /\ parsed # <<fallbackIssue(fullResponse)>>
               /\ parsed = SelectSeq(array.elems, keeps)

====
